---- MODULE Spec2Model ----
(***************************************************************************)
(* A model of the oma_tracking package: mode tracking (oma_tracking.py),   *)
(* mode clustering (oma_clustering.py) and harmonic removal                *)
(* (modal_tracking/harmonics.py).                                          *)
(*                                                                         *)
(* Numbers are integers.  Tracking frequencies are in units of 0.1 Hz.     *)
(* Harmonic frequencies and distances are in units of 1/60 Hz, so that     *)
(* (p/60) * rpm is the integer p * rpm.  Floating-point rounding is not    *)
(* modelled.                                                               *)
(***************************************************************************)
EXTENDS Integers, Sequences, FiniteSets, TLC

VARIABLES
    clustered_modes,  \* ModeTracking.clustered_modes: the reference table
    oma_modes,        \* ModeTracking.oma_modes: the observations
    calls,            \* number of classify_indices calls made so far
    instance,         \* the clusterer class constructed: ModeClusterer or ModeClusterer_HDBSCAN
    cols,             \* self.cols
    multipliers,      \* self.multipliers, in halves (0.5 is 1)
    index_divider,    \* self.index_divider
    modal_data,       \* the caller's modal table, passed to fit
    dbsc,             \* ModeClusterer.dbsc: the fitted DBSCAN object
    dbscan_data,      \* ModeClusterer.dbscan_data: the stored labelled table
    hdbsc,            \* ModeClusterer_HDBSCAN.hdbsc
    hdbscan_data,     \* ModeClusterer_HDBSCAN.hdbscan_data
    call,             \* the last clusterer call, its arguments, and whether the
                      \* instance was fitted when the call began
    raised,           \* the exception the last clusterer call raised, or None
    ret,              \* <<table>> when the last clusterer call returned a table, else None
    scada_data,       \* HarmonicDetector.scada_data: the RPM table
    hd_modal_data,    \* HarmonicDetector.modal_data
    p_orders,         \* HarmonicDetector.p_orders
    min_rpm,          \* HarmonicDetector.min_rpm
    hd_max_distance,  \* HarmonicDetector.max_distance
    hd_distances,     \* HarmonicDetector.distances: <<table>>, None while unset
    hd_call,          \* the last detector call
    hd_calls,         \* number of detector calls made so far
    hd_raised,        \* the exception the last detector call raised, or None
    hd_ret,           \* <<table>> when the last detector call returned a table, else None
    th_data,          \* theoretical_harmonic: the argument data
    th_p_orders,      \* theoretical_harmonic: the argument p_orders
    th_raised,        \* the exception theoretical_harmonic raised, or None
    th_ret,           \* <<table>> when theoretical_harmonic returned, else None
    model_name,       \* load_specific_dw_model: the argument model_name
    model_version,    \* load_specific_dw_model: the argument model_version, or None
    model_type,       \* load_specific_dw_model: the argument model_type, or None
    load_model_calls, \* the mlflow load_model calls made, in order
    model,            \* <<the model load_specific_dw_model returned>>, None before the call
    objects,          \* interleaved calls: dbsc and dbscan_data of each ModeClusterer instance
    threads,          \* interleaved calls: each caller's instance, argument, position and locals
    ats_data,         \* aggregate_time_series: the argument data
    ats_freq,         \* aggregate_time_series: the argument freq, in ticks; None before the call
    ats_ret           \* <<table>> when aggregate_time_series returned, else None

trackingVars == <<clustered_modes, oma_modes, calls>>

clustererVars ==
    <<instance, cols, multipliers, index_divider, modal_data, dbsc, dbscan_data,
      hdbsc, hdbscan_data, call, raised, ret>>

harmonicsVars ==
    <<scada_data, hd_modal_data, p_orders, min_rpm, hd_max_distance, hd_distances,
      hd_call, hd_calls, hd_raised, hd_ret>>

theoreticalVars == <<th_data, th_p_orders, th_raised, th_ret>>

\* The variables of the module-level functions and of the interleaved calls
loaderVars == <<model_name, model_version, model_type, load_model_calls, model>>

interleavedVars == <<objects, threads>>

aggregateVars == <<ats_data, ats_freq, ats_ret>>

restVars == <<theoreticalVars, loaderVars, interleavedVars, aggregateVars>>

vars == <<trackingVars, clustererVars, harmonicsVars, restVars>>

\* Python's None; an optional value is None or the tuple holding it
None == <<>>

\* raised when the last call returned normally
NoException == "None"

\* The DBSCAN / HDBSCAN object before fit: it has no labels_
Unfitted == [fitted |-> FALSE, X |-> [columns |-> {}, rows |-> <<>>], labels_ |-> <<>>]

Abs(x) == IF x < 0 THEN -x ELSE x

SeqsUpTo(S, n) == UNION {[1..k -> S] : k \in 0..n}

Range(f) == {f[i] : i \in DOMAIN f}

\* A DataFrame is [columns, rows]: rows is the sequence of its rows in row
\* order, each a function from the column names and "timestamp" (the index).
EmptyDataFrame == [columns |-> {}, rows |-> <<>>]

Column(df, c) == [i \in DOMAIN df.rows |-> df.rows[i][c]]

\* df[mask]: the rows of df that the mask selects (mask is the set of the
\* selected rows), in row order
Rows(df, mask) == [df EXCEPT !.rows = SelectSeq(df.rows, LAMBDA r : r \in mask)]

\* df[c] = values, adding the column when it is missing
SetColumn(df, c, values) ==
    [columns |-> df.columns \cup {c},
     rows |-> [i \in DOMAIN df.rows |->
                 [k \in DOMAIN df.rows[i] \cup {c} |->
                     IF k = c THEN values[i] ELSE df.rows[i][k]]]]

\* df[columns]
Project(df, columns) ==
    [columns |-> columns,
     rows |-> [i \in DOMAIN df.rows |->
                 [k \in columns \cup {"timestamp"} |-> df.rows[i][k]]]]

(***************************************************************************)
(* ModeClusterer and ModeClusterer_HDBSCAN                                 *)
(***************************************************************************)
MaxRows == 2
MaxLabel == 1
MaxMinClusterSize == 1

\* ModeClusterer.min_size and max_damping (the same defaults in ModeClusterer_HDBSCAN)
min_size == 5
max_damping == 5

\* The labels a density clustering can give: -1 is noise
ClusterLabels == -1..MaxLabel

\* The labels_ a fitted DBSCAN / HDBSCAN can hold for the rows D: any labelling
\* with -1 for noise and the clusters numbered 0, 1, ... without a gap
Labelings(D) ==
    {l \in [D -> ClusterLabels] : \A i \in D : l[i] > 0 => \E k \in D : l[k] = l[i] - 1}

\* <<frequency, size, damping>> of the rows of the modal tables: in and out of
\* the frequency range, and at the bounds of the size and the damping filter
RowValues == {<<1, 6, 4>>, <<2, 6, 4>>, <<3, 6, 4>>, <<2, 5, 4>>, <<2, 6, 5>>}

FrequencyRanges == {None, <<2, 2>>}

ColumnSets ==
    {{"frequency", "size", "damping"}, {"frequency", "size"},
     {"frequency", "size", "mean_damping"}, {"mean_frequency", "size", "damping"}}

ValueOf(v, c) ==
    CASE c \in {"frequency", "mean_frequency"} -> v[1]
      [] c = "size" -> v[2]
      [] c \in {"damping", "mean_damping"} -> v[3]

\* The row values of the modal tables are listed up to the order of the rows:
\* in non-decreasing order of (frequency, size, damping)
RowRank(v) == 100 * v[1] + 10 * v[2] + v[3]

RowSequences ==
    {s \in SeqsUpTo(RowValues, MaxRows) :
        \A i \in 1..(Len(s) - 1) : RowRank(s[i]) <= RowRank(s[i + 1])}

\* The modal tables: the row at position i has timestamp i
ModalTables ==
    {[columns |-> cs,
      rows |-> [i \in DOMAIN s |->
                  [c \in cs \cup {"timestamp"} |->
                      IF c = "timestamp" THEN i ELSE ValueOf(s[i], c)]]] :
     cs \in ColumnSets, s \in RowSequences}

\* The default multipliers {"frequency": 40, "size": 0.5, "damping": 1}, in halves
DefaultMultipliers == [frequency |-> 80, size |-> 1, damping |-> 2]

Configs ==
    {[cols |-> <<"frequency", "size", "damping">>, multipliers |-> DefaultMultipliers,
      index_divider |-> None],
     [cols |-> <<"frequency", "size", "damping">>, multipliers |-> DefaultMultipliers,
      index_divider |-> <<1>>],
     [cols |-> <<"frequency", "size">>, multipliers |-> [frequency |-> 80, size |-> 1],
      index_divider |-> None],
     [cols |-> <<"frequency", "size", "damping">>,
      multipliers |-> [frequency |-> 80, size |-> 0, damping |-> 2], index_divider |-> None],
     [cols |-> <<"frequency", "size">>, multipliers |-> DefaultMultipliers,
      index_divider |-> None]}

\* Variant: one configured column in the table is enough.
check_columns_any(cols_, data) == \E i \in DOMAIN cols_ : cols_[i] \in data.columns

\* utils.check_columns
check_columns(cols_, data) == \A i \in DOMAIN cols_ : cols_[i] \in data.columns

\* Variant: rows at the bounds (size = min_size, damping = max_damping) are kept.
data_selection_inclusive(data, cols_, min_size_, max_damping_) ==
    IF "size" \notin data.columns
    THEN [raised |-> "KeyError", data |-> data]
    ELSE LET sized == Rows(data, {r \in Range(data.rows) : r["size"] >= min_size_})
         IN  IF "damping" \in sized.columns
             THEN [raised |-> NoException,
                   data |-> Rows(sized, {r \in Range(sized.rows) : r["damping"] <= max_damping_})]
             ELSE IF "mean_damping" \in sized.columns
             THEN [raised |-> NoException,
                   data |-> Rows(sized, {r \in Range(sized.rows) : r["mean_damping"] <= max_damping_})]
             ELSE [raised |-> "KeyError", data |-> sized]

\* data_selection: [raised, data]
data_selection(data, cols_, min_size_, max_damping_) ==
    IF "size" \notin data.columns
    THEN [raised |-> "KeyError", data |-> data]
    ELSE LET sized == Rows(data, {r \in Range(data.rows) : r["size"] > min_size_})
         IN  IF "damping" \in sized.columns
             THEN [raised |-> NoException,
                   data |-> Rows(sized, {r \in Range(sized.rows) : r["damping"] < max_damping_})]
             ELSE IF "mean_damping" \in sized.columns
             THEN [raised |-> NoException,
                   data |-> Rows(sized, {r \in Range(sized.rows) : r["mean_damping"] < max_damping_})]
             ELSE [raised |-> "KeyError", data |-> sized]

\* 'damping' in key
ContainsDamping(key) == key \in {"damping", "mean_damping"}

\* Variant: the multiplier of "size" is not applied.
column_multiplier_size_unweighted(data, cols_, multipliers_, index_divider_) ==
    LET selected ==
            [columns |-> Range(cols_),
             rows |-> [i \in DOMAIN data.rows |->
                         [c \in Range(cols_) \cup {"timestamp"} |->
                             IF c = "timestamp" THEN i - 1 ELSE data.rows[i][c]]]]
        weight(c, x) ==
            IF c \in DOMAIN multipliers_ /\ c # "size"
            THEN (IF ContainsDamping(c) THEN x + 1 ELSE x) * multipliers_[c]
            ELSE 2 * x
        multiplied ==
            [selected EXCEPT !.rows =
                [i \in DOMAIN selected.rows |->
                    [c \in DOMAIN selected.rows[i] |->
                        IF c = "timestamp" THEN selected.rows[i][c]
                        ELSE weight(c, selected.rows[i][c])]]]
    IN  IF \E c \in Range(cols_) : c \notin data.columns
        THEN [raised |-> "KeyError", data |-> data]
        ELSE IF \E key \in DOMAIN multipliers_ : key \notin Range(cols_)
        THEN [raised |-> "KeyError", data |-> selected]
        ELSE IF index_divider_ = None
        THEN [raised |-> NoException, data |-> multiplied]
        ELSE IF multiplied.rows = <<>>
        THEN [raised |-> "IndexError", data |-> multiplied]
        ELSE [raised |-> NoException,
              data |-> SetColumn(multiplied, "time_diff",
                          [i \in DOMAIN multiplied.rows |->
                              (2 * ((i - 1) - 0)) \div index_divider_[1]])]

\* column_multiplier: [raised, data]; the values of data are in halves, and its
\* index ("timestamp") is the row position after reset_index
column_multiplier(data, cols_, multipliers_, index_divider_) ==
    LET selected ==
            [columns |-> Range(cols_),
             rows |-> [i \in DOMAIN data.rows |->
                         [c \in Range(cols_) \cup {"timestamp"} |->
                             IF c = "timestamp" THEN i - 1 ELSE data.rows[i][c]]]]
        weight(c, x) ==
            IF c \in DOMAIN multipliers_
            THEN (IF ContainsDamping(c) THEN x + 1 ELSE x) * multipliers_[c]
            ELSE 2 * x
        multiplied ==
            [selected EXCEPT !.rows =
                [i \in DOMAIN selected.rows |->
                    [c \in DOMAIN selected.rows[i] |->
                        IF c = "timestamp" THEN selected.rows[i][c]
                        ELSE weight(c, selected.rows[i][c])]]]
    IN  IF \E c \in Range(cols_) : c \notin data.columns
        \* multiplied_data[cols] with a column the table lacks
        THEN [raised |-> "KeyError", data |-> data]
        ELSE IF \E key \in DOMAIN multipliers_ : key \notin Range(cols_)
        THEN [raised |-> "KeyError", data |-> selected]
        ELSE IF index_divider_ = None
        THEN [raised |-> NoException, data |-> multiplied]
        ELSE IF multiplied.rows = <<>>
        THEN [raised |-> "IndexError", data |-> multiplied]
        ELSE [raised |-> NoException,
              data |-> SetColumn(multiplied, "time_diff",
                          [i \in DOMAIN multiplied.rows |->
                              (2 * ((i - 1) - 0)) \div index_divider_[1]])]

\* frequency_col of fit: "mean_frequency" when the table has it, else "frequency"
frequency_col(data) ==
    IF "mean_frequency" \in data.columns THEN "mean_frequency" ELSE "frequency"

\* The body of fit up to the clustering call (the same text in ModeClusterer.fit
\* and ModeClusterer_HDBSCAN.fit): [raised, dbscan_data, X], where dbscan_data is
\* the selected table and X the matrix handed to the clusterer.
fit_selection(data, frequency_range) ==
    IF ~check_columns(cols, data)
    THEN [raised |-> "ValueError", dbscan_data |-> EmptyDataFrame, X |-> EmptyDataFrame]
    ELSE IF frequency_col(data) \notin data.columns
    THEN [raised |-> "ValueError", dbscan_data |-> EmptyDataFrame, X |-> EmptyDataFrame]
    ELSE LET ranged ==
                IF frequency_range # None
                THEN Rows(data, {r \in Range(data.rows) :
                            /\ r[frequency_col(data)] >= frequency_range[1]
                            /\ r[frequency_col(data)] <= frequency_range[2]})
                ELSE data
             selection == data_selection(ranged, cols, min_size, max_damping)
             multiplied == column_multiplier(selection.data, cols, multipliers, index_divider)
         IN  IF selection.raised # NoException
             THEN [raised |-> selection.raised, dbscan_data |-> EmptyDataFrame,
                   X |-> EmptyDataFrame]
             ELSE IF multiplied.raised # NoException
             THEN [raised |-> multiplied.raised, dbscan_data |-> selection.data,
                   X |-> EmptyDataFrame]
             ELSE IF selection.data.rows = <<>>
             \* sklearn refuses an array with 0 samples
             THEN [raised |-> "ValueError", dbscan_data |-> selection.data,
                   X |-> EmptyDataFrame]
             ELSE [raised |-> NoException, dbscan_data |-> selection.data,
                   X |-> Project(multiplied.data, Range(cols))]

\* Variant: codes by rank of the value (a sorted factorization).
factorize_sorted(values) ==
    [i \in DOMAIN values |-> Cardinality({v \in Range(values) : v < values[i]})]

\* pd.factorize: each value's code is the number of distinct values that first
\* appear before it
factorize(values) ==
    [i \in DOMAIN values |->
        LET first == CHOOSE k \in DOMAIN values :
                        /\ values[k] = values[i]
                        /\ \A m \in DOMAIN values : values[m] = values[i] => k <= m
        IN  Cardinality({values[m] : m \in 1..(first - 1)})]

\* Variant: a cluster of exactly min_cluster_size rows survives.
lbls_at_least(data, min_cluster_size) ==
    {label \in Range(Column(data, "labels")) :
        Cardinality({i \in DOMAIN data.rows : data.rows[i]["labels"] = label})
            >= min_cluster_size}

\* lbls of predict and predict_with_noise: the labels with more than
\* min_cluster_size rows in the stored table
lbls(data, min_cluster_size) ==
    {label \in Range(Column(data, "labels")) :
        Cardinality({i \in DOMAIN data.rows : data.rows[i]["labels"] = label})
            > min_cluster_size}

\* predict (the same text in ModeClusterer and ModeClusterer_HDBSCAN)
predict(data, min_cluster_size) ==
    LET in_lbls ==
            Rows(data, {r \in Range(data.rows) : r["labels"] \in lbls(data, min_cluster_size)})
        clustered_data == Rows(in_lbls, {r \in Range(in_lbls.rows) : r["labels"] >= 0})
    IN  SetColumn(clustered_data, "labels", factorize(Column(clustered_data, "labels")))

\* ModeClusterer.predict_with_noise
predict_with_noise(data, min_cluster_size) ==
    LET clustered_data ==
            SetColumn(data, "labels",
                [i \in DOMAIN data.rows |->
                    IF data.rows[i]["labels"] \notin lbls(data, min_cluster_size)
                    THEN -1 ELSE data.rows[i]["labels"]])
        non_noise_clusters ==
            Rows(clustered_data, {r \in Range(clustered_data.rows) : r["labels"] >= 0})
        codes == factorize(Column(non_noise_clusters, "labels"))
        \* position of row i of clustered_data among the rows with labels >= 0
        pos(i) == Cardinality({k \in 1..i : clustered_data.rows[k]["labels"] >= 0})
    IN  SetColumn(clustered_data, "labels",
            [i \in DOMAIN clustered_data.rows |->
                IF clustered_data.rows[i]["labels"] >= 0
                THEN codes[pos(i)] ELSE clustered_data.rows[i]["labels"]])

\* ModeClusterer_HDBSCAN.predict_with_noise
HDBSCAN_predict_with_noise(data, min_cluster_size) ==
    LET clustered_data ==
            SetColumn(data, "labels",
                [i \in DOMAIN data.rows |->
                    IF data.rows[i]["labels"] \notin lbls(data, min_cluster_size)
                    THEN -1 ELSE data.rows[i]["labels"]])
    IN  SetColumn(clustered_data, "labels", factorize(Column(clustered_data, "labels")))

ClustererConfig == <<instance, cols, multipliers, index_divider, modal_data>>

\* The columns the caller drops from its table before it passes it to fit:
\* none, or the damping column
DroppedColumns == {{}, {"damping"} \cap modal_data.columns}

\* Variant: the labelled rows are appended to the stored table.
ModeClusterer_fit_appending ==
    /\ instance = "ModeClusterer"
    /\ \E frequency_range \in FrequencyRanges, dropped \in DroppedColumns :
        LET sel == fit_selection(Project(modal_data, modal_data.columns \ dropped),
                                 frequency_range)
        IN  /\ call' = [op |-> "fit", arg |-> frequency_range, dropped |-> dropped,
                        fitted_before |-> dbsc.fitted]
            /\ IF sel.raised # NoException
               THEN /\ raised' = sel.raised
                    /\ UNCHANGED <<dbsc, dbscan_data>>
               ELSE \E labels_ \in Labelings(DOMAIN sel.dbscan_data.rows) :
                    /\ dbsc' = [fitted |-> TRUE, X |-> sel.X, labels_ |-> labels_]
                    /\ dbscan_data' = [columns |-> sel.dbscan_data.columns \cup {"labels"},
                                       rows |-> (IF "labels" \in dbscan_data.columns
                                                 THEN dbscan_data.rows ELSE <<>>)
                                                \o SetColumn(sel.dbscan_data, "labels",
                                                             dbsc'.labels_).rows]
                    /\ raised' = NoException
    /\ ret' = None
    /\ UNCHANGED <<ClustererConfig, hdbsc, hdbscan_data, trackingVars, harmonicsVars, restVars>>

\* Variant: the selected table is stored before the clustering is tried.
ModeClusterer_fit_storing_first ==
    /\ instance = "ModeClusterer"
    /\ \E frequency_range \in FrequencyRanges, dropped \in DroppedColumns :
        LET sel == fit_selection(Project(modal_data, modal_data.columns \ dropped),
                                 frequency_range)
        IN  /\ call' = [op |-> "fit", arg |-> frequency_range, dropped |-> dropped,
                        fitted_before |-> dbsc.fitted]
            /\ IF sel.raised # NoException
               THEN /\ raised' = sel.raised
                    /\ dbscan_data' = sel.dbscan_data
                    /\ UNCHANGED dbsc
               ELSE \E labels_ \in Labelings(DOMAIN sel.dbscan_data.rows) :
                    /\ dbsc' = [fitted |-> TRUE, X |-> sel.X, labels_ |-> labels_]
                    /\ dbscan_data' = SetColumn(sel.dbscan_data, "labels", dbsc'.labels_)
                    /\ raised' = NoException
    /\ ret' = None
    /\ UNCHANGED <<ClustererConfig, hdbsc, hdbscan_data, trackingVars, harmonicsVars, restVars>>

\* ModeClusterer.fit(modal_data, frequency_range)
ModeClusterer_fit ==
    /\ instance = "ModeClusterer"
    /\ \E frequency_range \in FrequencyRanges, dropped \in DroppedColumns :
        LET sel == fit_selection(Project(modal_data, modal_data.columns \ dropped),
                                 frequency_range)
        IN  /\ call' = [op |-> "fit", arg |-> frequency_range, dropped |-> dropped,
                        fitted_before |-> dbsc.fitted]
            /\ IF sel.raised # NoException
               THEN /\ raised' = sel.raised
                    /\ UNCHANGED <<dbsc, dbscan_data>>
               ELSE \E labels_ \in Labelings(DOMAIN sel.dbscan_data.rows) :
                    /\ dbsc' = [fitted |-> TRUE, X |-> sel.X, labels_ |-> labels_]
                    /\ dbscan_data' = SetColumn(sel.dbscan_data, "labels", dbsc'.labels_)
                    /\ raised' = NoException
    /\ ret' = None
    /\ UNCHANGED <<ClustererConfig, hdbsc, hdbscan_data, trackingVars, harmonicsVars, restVars>>

\* ModeClusterer.predict(min_cluster_size)
ModeClusterer_predict ==
    /\ instance = "ModeClusterer"
    /\ \E min_cluster_size \in 0..MaxMinClusterSize :
        /\ call' = [op |-> "predict", arg |-> <<min_cluster_size>>, dropped |-> {},
                    fitted_before |-> dbsc.fitted]
        /\ IF "labels" \notin dbscan_data.columns
           THEN raised' = "KeyError" /\ ret' = None
           ELSE raised' = NoException /\ ret' = <<predict(dbscan_data, min_cluster_size)>>
    /\ UNCHANGED <<ClustererConfig, dbsc, dbscan_data, hdbsc, hdbscan_data, trackingVars, harmonicsVars, restVars>>

\* Variant: the relabelled table is written back to self.dbscan_data.
ModeClusterer_predict_with_noise_in_place ==
    /\ instance = "ModeClusterer"
    /\ \E min_cluster_size \in 0..MaxMinClusterSize :
        /\ call' = [op |-> "predict_with_noise", arg |-> <<min_cluster_size>>, dropped |-> {},
                    fitted_before |-> dbsc.fitted]
        /\ IF "labels" \notin dbscan_data.columns
           THEN raised' = "KeyError" /\ ret' = None /\ UNCHANGED dbscan_data
           ELSE /\ raised' = NoException
                /\ ret' = <<predict_with_noise(dbscan_data, min_cluster_size)>>
                /\ dbscan_data' = predict_with_noise(dbscan_data, min_cluster_size)
    /\ UNCHANGED <<ClustererConfig, dbsc, hdbsc, hdbscan_data, trackingVars, harmonicsVars, restVars>>

\* ModeClusterer.predict_with_noise(min_cluster_size)
ModeClusterer_predict_with_noise ==
    /\ instance = "ModeClusterer"
    /\ \E min_cluster_size \in 0..MaxMinClusterSize :
        /\ call' = [op |-> "predict_with_noise", arg |-> <<min_cluster_size>>, dropped |-> {},
                    fitted_before |-> dbsc.fitted]
        /\ IF "labels" \notin dbscan_data.columns
           THEN raised' = "KeyError" /\ ret' = None
           ELSE raised' = NoException /\ ret' = <<predict_with_noise(dbscan_data, min_cluster_size)>>
    /\ UNCHANGED <<ClustererConfig, dbsc, dbscan_data, hdbsc, hdbscan_data, trackingVars, harmonicsVars, restVars>>

\* ModeClusterer_HDBSCAN.fit(modal_data, frequency_range)
HDBSCAN_fit ==
    /\ instance = "ModeClusterer_HDBSCAN"
    /\ \E frequency_range \in FrequencyRanges, dropped \in DroppedColumns :
        LET sel == fit_selection(Project(modal_data, modal_data.columns \ dropped),
                                 frequency_range)
        IN  /\ call' = [op |-> "fit", arg |-> frequency_range, dropped |-> dropped,
                        fitted_before |-> hdbsc.fitted]
            /\ IF sel.raised # NoException
               THEN /\ raised' = sel.raised
                    /\ UNCHANGED <<hdbsc, hdbscan_data>>
               ELSE \E labels_ \in Labelings(DOMAIN sel.dbscan_data.rows) :
                    /\ hdbsc' = [fitted |-> TRUE, X |-> sel.X, labels_ |-> labels_]
                    /\ hdbscan_data' = SetColumn(sel.dbscan_data, "labels", hdbsc'.labels_)
                    /\ raised' = NoException
    /\ ret' = None
    /\ UNCHANGED <<ClustererConfig, dbsc, dbscan_data, trackingVars, harmonicsVars, restVars>>

\* ModeClusterer_HDBSCAN.predict(min_cluster_size)
HDBSCAN_predict ==
    /\ instance = "ModeClusterer_HDBSCAN"
    /\ \E min_cluster_size \in 0..MaxMinClusterSize :
        /\ call' = [op |-> "predict", arg |-> <<min_cluster_size>>, dropped |-> {},
                    fitted_before |-> hdbsc.fitted]
        /\ IF "labels" \notin hdbscan_data.columns
           THEN raised' = "KeyError" /\ ret' = None
           ELSE raised' = NoException /\ ret' = <<predict(hdbscan_data, min_cluster_size)>>
    /\ UNCHANGED <<ClustererConfig, dbsc, dbscan_data, hdbsc, hdbscan_data, trackingVars, harmonicsVars, restVars>>

\* ModeClusterer_HDBSCAN.predict_with_noise(min_cluster_size)
HDBSCAN_predict_with_noise_call ==
    /\ instance = "ModeClusterer_HDBSCAN"
    /\ \E min_cluster_size \in 0..MaxMinClusterSize :
        /\ call' = [op |-> "predict_with_noise", arg |-> <<min_cluster_size>>, dropped |-> {},
                    fitted_before |-> hdbsc.fitted]
        /\ IF "labels" \notin hdbscan_data.columns
           THEN raised' = "KeyError" /\ ret' = None
           ELSE /\ raised' = NoException
                /\ ret' = <<HDBSCAN_predict_with_noise(hdbscan_data, min_cluster_size)>>
    /\ UNCHANGED <<ClustererConfig, dbsc, dbscan_data, hdbsc, hdbscan_data, trackingVars, harmonicsVars, restVars>>

\* __post_init__ of both classes: an unfitted clusterer and an empty DataFrame
post_init ==
    /\ dbsc = Unfitted
    /\ dbscan_data = EmptyDataFrame
    /\ hdbsc = Unfitted
    /\ hdbscan_data = EmptyDataFrame

\* HarmonicDetector.min_rpm and max_distance defaults (6.0 rpm; 0.1 Hz)
default_min_rpm == 6
default_max_distance == 6

\* No detector in use
HarmonicsIdle ==
    /\ scada_data = <<>>
    /\ hd_modal_data = <<>>
    /\ p_orders = <<>>
    /\ min_rpm = default_min_rpm
    /\ hd_max_distance = default_max_distance
    /\ hd_distances = None
    /\ hd_call = "none"
    /\ hd_calls = 0
    /\ hd_raised = NoException
    /\ hd_ret = None

\* No clusterer in use
ClustererIdle ==
    /\ instance = "None"
    /\ cols = <<>>
    /\ multipliers = <<>>
    /\ index_divider = None
    /\ modal_data = EmptyDataFrame
    /\ post_init
    /\ call = [op |-> "none", arg |-> None, dropped |-> {}, fitted_before |-> FALSE]
    /\ raised = NoException
    /\ ret = None

TrackingIdle ==
    /\ clustered_modes = <<>>
    /\ oma_modes = <<>>
    /\ calls = 0

\* theoretical_harmonic is not under call
TheoreticalIdle ==
    /\ th_data = EmptyDataFrame
    /\ th_p_orders = <<>>
    /\ th_raised = NoException
    /\ th_ret = None

\* load_specific_dw_model is not under call
LoaderIdle ==
    /\ model_name = ""
    /\ model_version = None
    /\ model_type = None
    /\ load_model_calls = <<>>
    /\ model = None

\* No interleaved calls
InterleavedIdle ==
    /\ objects = <<>>
    /\ threads = <<>>

\* aggregate_time_series is not under call
AggregateIdle ==
    /\ ats_data = <<>>
    /\ ats_freq = None
    /\ ats_ret = None

RestIdle ==
    /\ TheoreticalIdle
    /\ LoaderIdle
    /\ InterleavedIdle
    /\ AggregateIdle

ClustererInit ==
    /\ instance \in {"ModeClusterer", "ModeClusterer_HDBSCAN"}
    /\ \E config \in Configs :
        /\ cols = config.cols
        /\ multipliers = config.multipliers
        /\ index_divider = config.index_divider
    /\ modal_data \in ModalTables
    /\ post_init
    /\ call = [op |-> "none", arg |-> None, dropped |-> {}, fitted_before |-> FALSE]
    /\ raised = NoException
    /\ ret = None
    /\ TrackingIdle
    /\ HarmonicsIdle
    /\ RestIdle

ClustererNext ==
    \/ ModeClusterer_fit
    \/ ModeClusterer_predict
    \/ ModeClusterer_predict_with_noise
    \/ HDBSCAN_fit
    \/ HDBSCAN_predict
    \/ HDBSCAN_predict_with_noise_call

SpecClusterer == ClustererInit /\ [][ClustererNext]_vars

----------------------------------------------------------------------------
\* The stored labelled table and the clusterer object of the instance in use
Stored == IF instance = "ModeClusterer" THEN dbscan_data ELSE hdbscan_data
Clusterer == IF instance = "ModeClusterer" THEN dbsc ELSE hdbsc

WithoutLabels(r) == [c \in DOMAIN r \ {"labels"} |-> r[c]]

\* Number of rows of the stored table with the fitted label l
Population(l) == Cardinality({i \in DOMAIN Stored.rows : Stored.rows[i]["labels"] = l})

\* The stored row with timestamp t (timestamps are unique)
StoredAt(t) == Stored.rows[CHOOSE i \in DOMAIN Stored.rows : Stored.rows[i]["timestamp"] = t]

Returned(op) == call.op = op /\ raised = NoException /\ ret # None

\* C3: after predict (of either class) the labels of the returned table are
\* exactly {0, ..., K-1} for some K >= 0, without -1 and without gaps, and in
\* order of first appearance: the first row has label 0 and label k+1 first
\* appears after label k.
C3_PredictLabelsDenseInOrder ==
    Returned("predict") =>
        LET L == Column(ret[1], "labels")
            K == Cardinality(Range(L))
        IN  /\ Range(L) = 0..(K - 1)
            /\ L # <<>> => L[1] = 0
            /\ \A i \in DOMAIN L :
                  L[i] > 0 => \E k \in 1..(i - 1) : L[k] = L[i] - 1

\* C3 witness: predict returned two clusters whose fitted labels were in the
\* other order (fitted 1 became 0, fitted 0 became 1).
C3_Witness ==
    /\ Returned("predict")
    /\ Column(ret[1], "labels") = <<0, 1>>
    /\ StoredAt(ret[1].rows[1]["timestamp"])["labels"] = 1
    /\ StoredAt(ret[1].rows[2]["timestamp"])["labels"] = 0

C5_PredictWithNoiseKeepsNoiseLabel ==
    Returned("predict_with_noise") =>
        LET out == ret[1].rows
            small(i) == \/ Stored.rows[i]["labels"] = -1
                        \/ Population(Stored.rows[i]["labels"]) <= call.arg[1]
            big == {out[i]["labels"] : i \in {k \in DOMAIN out : ~small(k)}}
        IN  /\ Len(out) = Len(Stored.rows)
            /\ \A i \in DOMAIN out : small(i) => out[i]["labels"] = -1
            /\ big = 0..(Cardinality(big) - 1)

\* The rows of the caller's table that pass fit's filters, by the claim's
\* wording: inside the frequency range (bounds included) when one is given,
\* size above min_size and damping below max_damping.
PassesFit(r, frequency_range) ==
    /\ frequency_range # None =>
          r["frequency"] >= frequency_range[1] /\ r["frequency"] <= frequency_range[2]
    /\ r["size"] > 5
    /\ IF "damping" \in DOMAIN r THEN r["damping"] < 5 ELSE r["mean_damping"] < 5

\* C9: after a successful fit(table, frequency_range) the stored table is
\* exactly the input rows inside the range with size > min_size and
\* damping < max_damping, with their original values, plus one integer label
\* per row (the clusterer's labels_, -1 for noise).
C9_FitStoresSelectedOriginalRows ==
    (call.op = "fit" /\ raised = NoException) =>
        LET expected == SelectSeq(modal_data.rows, LAMBDA r : PassesFit(r, call.arg))
        IN  /\ [i \in DOMAIN Stored.rows |-> WithoutLabels(Stored.rows[i])] = expected
            /\ Len(Stored.rows) = Len(expected)
            /\ Stored.columns = modal_data.columns \cup {"labels"}
            /\ \A i \in DOMAIN Stored.rows :
                  /\ Stored.rows[i]["labels"] \in Int
                  /\ Stored.rows[i]["labels"] >= -1
                  /\ Stored.rows[i]["labels"] = Clusterer.labels_[i]

\* C9 witness: a fit with a frequency range on a table with a row at the
\* range bound that is kept and a row of size = min_size or of
\* damping = max_damping that is excluded.
C9_Witness ==
    /\ call.op = "fit"
    /\ raised = NoException
    /\ call.arg = <<2, 2>>
    /\ modal_data.columns = {"frequency", "size", "damping"}
    /\ Len(modal_data.rows) = 2
    /\ Len(Stored.rows) = 1
    /\ Stored.rows[1]["frequency"] = 2
    /\ \E i \in DOMAIN modal_data.rows :
          modal_data.rows[i]["size"] = 5 \/ modal_data.rows[i]["damping"] = 5

\* C10: fit on a table that lacks a configured column raises ValueError
\* before any row selection or clustering: nothing is stored and the
\* clusterer stays unfitted.
C10_FitMissingColumnRaisesValueError ==
    (call.op = "fit" /\ \E i \in DOMAIN cols : cols[i] \notin modal_data.columns) =>
        /\ raised = "ValueError"
        /\ Stored = EmptyDataFrame
        /\ Clusterer = Unfitted
        /\ ret = None

\* C10 witness: fit with the default columns on a non-empty table without a
\* "damping" column has raised ValueError.
C10_Witness ==
    /\ call.op = "fit"
    /\ cols = <<"frequency", "size", "damping">>
    /\ modal_data.columns = {"frequency", "size"}
    /\ modal_data.rows # <<>>
    /\ raised = "ValueError"

\* C14: when index_divider is set, the matrix handed to the density
\* clustering by a successful fit has, besides the weighted configured
\* columns, a column time_diff = (row position - first row position) /
\* index_divider (in halves, as the other features).
C14_FeatureMatrixHasTimeDiff ==
    (call.op = "fit" /\ raised = NoException /\ index_divider # None) =>
        /\ "time_diff" \in Clusterer.X.columns
        /\ \A i \in DOMAIN Clusterer.X.rows :
              Clusterer.X.rows[i]["time_diff"] = (2 * (i - 1)) \div index_divider[1]

\* The positive factors applied to the raw size values
ScaleFactors == {2, 3}

\* data with every size value multiplied by k
Scaled(data, k) ==
    [data EXCEPT !.rows =
        [i \in DOMAIN data.rows |->
            [c \in DOMAIN data.rows[i] |->
                IF c = "size" THEN k * data.rows[i][c] ELSE data.rows[i][c]]]]

SizeMultiplierZero == "size" \in DOMAIN multipliers /\ multipliers["size"] = 0

\* C15 (as claimed): with the multiplier of size at 0, a successful fit stores
\* the same rows and hands the same matrix to the clusterer (which labels it
\* as a function of the matrix) as a fit of the table with every size value
\* multiplied by a positive factor.
C15_SizeScalingLeavesFitUnchanged ==
    (call.op = "fit" /\ raised = NoException /\ SizeMultiplierZero) =>
        \A k \in ScaleFactors :
            LET sel == fit_selection(Scaled(modal_data, k), call.arg)
            IN  /\ sel.raised = NoException
                /\ Column(sel.dbscan_data, "timestamp") = Column(Stored, "timestamp")
                /\ sel.X = Clusterer.X

\* C15 (amended): with the multiplier of size at 0 the size feature of the
\* clustered matrix is 0 in every row, and the stored rows and the matrix are
\* the same for the table scaled in size by a factor that leaves every row
\* of the input on the same side of the filter size > min_size.
C15_SizeScalingInvariantWithinSizeFilter ==
    (call.op = "fit" /\ raised = NoException /\ SizeMultiplierZero) =>
        /\ \A i \in DOMAIN Clusterer.X.rows : Clusterer.X.rows[i]["size"] = 0
        /\ \A k \in ScaleFactors :
              (\A i \in DOMAIN modal_data.rows :
                  (modal_data.rows[i]["size"] > 5) <=> (k * modal_data.rows[i]["size"] > 5))
              => LET sel == fit_selection(Scaled(modal_data, k), call.arg)
                 IN  /\ sel.raised = NoException
                     /\ Column(sel.dbscan_data, "timestamp") = Column(Stored, "timestamp")
                     /\ sel.X = Clusterer.X

\* C15 witness: a fit with the multiplier of size at 0 stored two rows of a
\* table whose size values all stay above min_size under scaling.
C15_Witness ==
    /\ call.op = "fit"
    /\ raised = NoException
    /\ SizeMultiplierZero
    /\ Len(Stored.rows) = 2
    /\ \A i \in DOMAIN modal_data.rows : modal_data.rows[i]["size"] > 5

\* C18: a successful fit leaves as stored table exactly the selected rows of
\* its own input with the labels of the clusterer it stored, whatever was
\* stored before; the stored clusterer and the stored table are always of the
\* same fit; predict and predict_with_noise change neither and return rows
\* of the stored table only.
C18_RefitReplacesPriorState ==
    [][/\ (call'.op = "fit" /\ raised' = NoException) =>
             /\ [i \in DOMAIN Stored'.rows |-> WithoutLabels(Stored'.rows[i])]
                  = SelectSeq(modal_data.rows, LAMBDA r : PassesFit(r, call'.arg))
       /\ Clusterer'.fitted =>
             /\ Column(Stored', "labels") = Clusterer'.labels_
             /\ Len(Clusterer'.X.rows) = Len(Stored'.rows)
             /\ \A i \in DOMAIN Stored'.rows :
                   Clusterer'.X.rows[i]["frequency"]
                     = multipliers["frequency"] * Stored'.rows[i]["frequency"]
       /\ (call'.op \in {"predict", "predict_with_noise"} /\ raised' = NoException) =>
             /\ Stored' = Stored
             /\ Clusterer' = Clusterer
             /\ \A k \in DOMAIN ret'[1].rows : \E i \in DOMAIN Stored.rows :
                   WithoutLabels(ret'[1].rows[k]) = WithoutLabels(Stored.rows[i])]_vars

\* C18 witness: a successful fit with a frequency range on an instance that
\* was fitted before has stored one row of a table of two rows that both pass
\* the filters of a fit without range.
C18_Witness ==
    /\ call.op = "fit"
    /\ raised = NoException
    /\ call.fitted_before
    /\ call.arg = <<2, 2>>
    /\ Len(modal_data.rows) = 2
    /\ \A i \in 1..2 : PassesFit(modal_data.rows[i], None)
    /\ Len(Stored.rows) = 1
    /\ Len(Clusterer.labels_) = 1

\* What a predict call op with min_cluster_size on the instance in use returns
\* from the stored table
Prediction(op, min_cluster_size) ==
    CASE op = "predict" -> predict(Stored, min_cluster_size)
      [] op = "predict_with_noise" /\ instance = "ModeClusterer" ->
            predict_with_noise(Stored, min_cluster_size)
      [] op = "predict_with_noise" /\ instance = "ModeClusterer_HDBSCAN" ->
            HDBSCAN_predict_with_noise(Stored, min_cluster_size)

\* C24: a predict or predict_with_noise call, with any min_cluster_size and
\* after any calls, leaves the stored table and the stored clusterer of both
\* classes as they were; on a fitted instance it does not raise, the stored
\* labels are still the labels_ of the stored clusterer, and the returned
\* table is a function of the method, min_cluster_size and the stored table,
\* so that a call returns what the call before it with the same method and
\* min_cluster_size returned.
C24_PredictLeavesStoredState ==
    [][call'.op \in {"predict", "predict_with_noise"} =>
          /\ dbsc' = dbsc /\ dbscan_data' = dbscan_data
          /\ hdbsc' = hdbsc /\ hdbscan_data' = hdbscan_data
          /\ Clusterer.fitted =>
                /\ raised' = NoException
                /\ Column(Stored', "labels") = Clusterer'.labels_
                /\ ret' = <<Prediction(call'.op, call'.arg[1])>>
                /\ (call.op = call'.op /\ call.arg = call'.arg /\ raised = NoException)
                      => ret' = ret
          /\ ~Clusterer.fitted => (raised' # NoException /\ ret' = None)]_vars

\* C24 witness: predict_with_noise on a fitted instance has returned both
\* stored rows with labels that differ from the stored ones, which are still
\* the labels_ of the clusterer.
C24_Witness ==
    /\ call.op = "predict_with_noise"
    /\ call.fitted_before
    /\ raised = NoException
    /\ Len(Stored.rows) = 2
    /\ Column(Stored, "labels") = Clusterer.labels_
    /\ Column(ret[1], "labels") # Column(Stored, "labels")
    /\ Len(ret[1].rows) = Len(Stored.rows)

\* C19: a fit call that raises leaves the stored table and the stored
\* clusterer of the instance as they were, returns nothing, and leaves the
\* caller's table unchanged and without a labels column; a predict that
\* follows it returns the prediction from the table stored before the call.
C19_FailedFitLeavesState ==
    [][/\ (call'.op = "fit" /\ raised' # NoException) =>
             /\ dbsc' = dbsc /\ dbscan_data' = dbscan_data
             /\ hdbsc' = hdbsc /\ hdbscan_data' = hdbscan_data
             /\ ret' = None
             /\ modal_data' = modal_data
             /\ "labels" \notin modal_data'.columns
       /\ (call.op = "fit" /\ raised # NoException
             /\ call'.op = "predict" /\ raised' = NoException) =>
             /\ Stored' = Stored
             /\ ret'[1] = predict(Stored, call'.arg[1])]_vars

\* C19 witness: on an instance that holds the result of a successful fit, a
\* fit of the table without the configured damping column has raised
\* ValueError and the stored rows are still there.
C19_Witness ==
    /\ call.op = "fit"
    /\ raised = "ValueError"
    /\ call.dropped = {"damping"}
    /\ call.fitted_before
    /\ Clusterer.fitted
    /\ Len(Stored.rows) = 2
    /\ "labels" \in Stored.columns

(***************************************************************************)
(* Two callers, each running fit and then predict on a ModeClusterer       *)
(* instance, on the same instance or on two.  A step is one statement of   *)
(* fit that reads or writes the instance; labels_ of a caller is what the  *)
(* clustering computes for that caller's matrix.  The fields by, rows_of   *)
(* and labels_of record the caller a value came from.                      *)
(***************************************************************************)
Callers == {1, 2}

\* The tables passed to the interleaved fits: one or two rows that pass the
\* row filters
InterleavedTables ==
    {t \in ModalTables :
        /\ t.columns = {"frequency", "size", "damping"}
        /\ Len(t.rows) \in {1, 2}
        /\ \A i \in DOMAIN t.rows : t.rows[i]["frequency"] \in {1, 2} /\ PassesFit(t.rows[i], None)}

\* __post_init__ of one instance
NewObject ==
    [dbsc |-> [fitted |-> FALSE, X |-> EmptyDataFrame, labels_ |-> <<>>, by |-> 0],
     dbscan_data |-> [columns |-> {}, rows |-> <<>>, rows_of |-> 0, labels_of |-> 0]]

\* Variant: dbsc and dbscan_data are held once for the class, not per instance.
self_shared(t) == 1

\* self of caller t: the instance whose attributes its fit and predict use
self(t) == threads[t].self

\* fit, lines 106-136: the checks, the selection and the multiplied matrix
fit_select(t) ==
    /\ threads[t].pc = "fit"
    /\ LET sel == fit_selection(threads[t].modal_data, None)
       IN  threads' = [threads EXCEPT ![t] =
                IF sel.raised # NoException
                THEN [@ EXCEPT !.pc = "done", !.raised = sel.raised]
                ELSE [@ EXCEPT !.pc = "cluster",
                               !.dbscan_data = [columns |-> sel.dbscan_data.columns,
                                                rows |-> sel.dbscan_data.rows,
                                                rows_of |-> t, labels_of |-> 0],
                               !.X = sel.X]]
    /\ UNCHANGED objects

\* fit, line 138: self.dbsc = DBSCAN(...).fit(multiplied_dbscan_data[self.cols])
fit_cluster(t) ==
    /\ threads[t].pc = "cluster"
    /\ objects' = [objects EXCEPT ![self(t)].dbsc =
                      [fitted |-> TRUE, X |-> threads[t].X,
                       labels_ |-> threads[t].labels_, by |-> t]]
    /\ threads' = [threads EXCEPT ![t].pc = "label"]

\* fit, line 139: dbscan_data["labels"] = self.dbsc.labels_; a labels_ of
\* another length raises ValueError
fit_assign_labels(t) ==
    /\ threads[t].pc = "label"
    /\ LET dbsc_ == objects[self(t)].dbsc
           local == threads[t].dbscan_data
       IN  threads' = [threads EXCEPT ![t] =
                IF Len(dbsc_.labels_) # Len(local.rows)
                THEN [@ EXCEPT !.pc = "done", !.raised = "ValueError"]
                ELSE [@ EXCEPT !.pc = "store",
                               !.dbscan_data =
                                   [columns |-> local.columns \cup {"labels"},
                                    rows |-> SetColumn(local, "labels", dbsc_.labels_).rows,
                                    rows_of |-> t, labels_of |-> dbsc_.by]]]
    /\ UNCHANGED objects

\* fit, line 140: self.dbscan_data = dbscan_data
fit_store(t) ==
    /\ threads[t].pc = "store"
    /\ objects' = [objects EXCEPT ![self(t)].dbscan_data = threads[t].dbscan_data]
    /\ threads' = [threads EXCEPT ![t].pc = "predict"]

\* predict(0) after the fit has returned
predict_after_fit(t) ==
    /\ threads[t].pc = "predict"
    /\ threads' = [threads EXCEPT ![t] =
            [@ EXCEPT !.pc = "done",
                      !.ret = <<predict(objects[self(t)].dbscan_data, 0)>>]]
    /\ UNCHANGED objects

\* The matrix the fit of table computes
MatrixOf(table) == fit_selection(table, None).X

InterleavedInit ==
    /\ instance = "ModeClusterer"
    /\ cols = <<"frequency", "size", "damping">>
    /\ multipliers = DefaultMultipliers
    /\ index_divider = None
    /\ modal_data = EmptyDataFrame
    /\ post_init
    /\ call = [op |-> "none", arg |-> None, dropped |-> {}, fitted_before |-> FALSE]
    /\ raised = NoException
    /\ ret = None
    /\ objects = [i \in {1, 2} |-> NewObject]
    /\ \E selves \in {<<1, 1>>, <<1, 2>>} :
       \E tables \in [Callers -> InterleavedTables] :
       \E labels \in [Callers -> UNION {Labelings(1..n) : n \in {1, 2}}] :
          /\ \A t \in Callers : DOMAIN labels[t] = DOMAIN tables[t].rows
          \* the clustering is a function of its matrix
          /\ MatrixOf(tables[1]) = MatrixOf(tables[2]) => labels[1] = labels[2]
          /\ threads = [t \in Callers |->
                          [self |-> selves[t], modal_data |-> tables[t], labels_ |-> labels[t],
                           pc |-> "fit", dbscan_data |-> NewObject.dbscan_data,
                           X |-> EmptyDataFrame, raised |-> NoException, ret |-> None]]
    /\ TrackingIdle
    /\ HarmonicsIdle
    /\ TheoreticalIdle
    /\ LoaderIdle
    /\ AggregateIdle

InterleavedNext ==
    /\ \E t \in Callers :
          \/ fit_select(t)
          \/ fit_cluster(t)
          \/ fit_assign_labels(t)
          \/ fit_store(t)
          \/ predict_after_fit(t)
    /\ UNCHANGED <<trackingVars, clustererVars, harmonicsVars, theoreticalVars, loaderVars,
                   aggregateVars>>

SpecInterleaved == InterleavedInit /\ [][InterleavedNext]_vars

----------------------------------------------------------------------------
\* What the fit of caller t leaves when it runs alone: its selected rows
\* with the labels the clustering computes for its own matrix
OwnTable(t) ==
    SetColumn(fit_selection(threads[t].modal_data, None).dbscan_data, "labels",
              threads[t].labels_)

\* C20: calls on two distinct instances, however interleaved, leave on each
\* instance what the calls leave when run one after the other: the clusterer
\* and the labelled table of the instance's own fit, and predict returns the
\* prediction from that table; so a table whose labels were computed by
\* another call, or a clusterer and a table of different calls once the
\* calls are over, is met only when the two fits share their instance.
C20_DistinctInstancesIsolated ==
    \A t \in DOMAIN threads :
        LET o == 3 - t
            obj == objects[threads[t].self]
        IN  /\ threads[t].self # threads[o].self =>
                  /\ threads[t].raised = NoException
                  /\ obj.dbsc.by \in {0, t}
                  /\ obj.dbscan_data.rows_of \in {0, t}
                  /\ threads[t].pc \in {"label", "store", "predict", "done"} =>
                        /\ obj.dbsc.X = MatrixOf(threads[t].modal_data)
                        /\ obj.dbsc.labels_ = threads[t].labels_
                  /\ threads[t].pc \in {"predict", "done"} =>
                        /\ obj.dbscan_data.rows = OwnTable(t).rows
                        /\ obj.dbscan_data.labels_of = t
                  /\ threads[t].pc = "done" =>
                        threads[t].ret = <<predict(OwnTable(t), 0)>>
            /\ (/\ threads[t].pc = "done" /\ threads[o].pc = "done"
                 /\ \/ obj.dbscan_data.rows_of # obj.dbscan_data.labels_of
                    \/ obj.dbsc.by # obj.dbscan_data.rows_of)
               => threads[t].self = threads[o].self

\* C20 witness: two interleaved fits on the same instance are over; the
\* stored table holds the rows of one call with the labels computed by the
\* other, which differ from its own, and the stored clusterer is the other
\* call's.
C20_Witness ==
    /\ threads # <<>>
    /\ threads[1].self = threads[2].self
    /\ \A t \in Callers : threads[t].pc = "done" /\ threads[t].raised = NoException
    /\ LET obj == objects[threads[1].self]
       IN  /\ obj.dbscan_data.rows_of # obj.dbscan_data.labels_of
           /\ obj.dbsc.by # obj.dbscan_data.rows_of
           /\ Column(obj.dbscan_data, "labels") # threads[obj.dbscan_data.rows_of].labels_

(***************************************************************************)
(* HarmonicDetector.  Frequencies and distances are in units of 1/60 Hz.   *)
(***************************************************************************)
MaxModalRows == 2
MaxDetectorCalls == 2

\* get_plot_distance_data defaults: max_damping 10.0, frequency_range[1] = 2 Hz
plot_max_damping == 10
plot_frequency_max == 120

MinRpms == {default_min_rpm, 10}
MaxDistances == {default_max_distance, 14}
OrderLists == {<<>>, <<1>>, <<3>>, <<1, 3>>}

\* <<frequency, damping, rpm>> of a modal row and of the RPM sample at its timestamp
HarmonicRowValues == {10, 16, 30, 120} \X {1, 10} \X {6, 10}

\* abs((p_harmonic / 60 * rpm) - frequency), times 60
harmonic_distance(p_harmonic, rpm, frequency) == Abs(p_harmonic * rpm - frequency)

\* timestamp t is a label of the index of scada_data
has_rpm(t) == \E i \in DOMAIN scada_data : scada_data[i].timestamp = t

\* scada_data.filter(regex='rpm').loc[index]: the rpm at timestamp t
rpm_at(t) ==
    scada_data[CHOOSE i \in DOMAIN scada_data : scada_data[i].timestamp = t].rpm

\* Variant: the index of the RPM table has to equal the index of the modal
\* table; any difference raises.
get_distance_calculator_data_same_index ==
    IF hd_modal_data = <<>>
    THEN [raised |-> "ValueError", data |-> <<>>]
    ELSE IF {hd_modal_data[i].timestamp : i \in DOMAIN hd_modal_data}
              # {scada_data[i].timestamp : i \in DOMAIN scada_data}
    THEN [raised |-> "KeyError", data |-> <<>>]
    ELSE [raised |-> NoException,
          data |-> [i \in DOMAIN hd_modal_data |->
                      [timestamp |-> hd_modal_data[i].timestamp,
                       rpm |-> rpm_at(hd_modal_data[i].timestamp),
                       frequency |-> hd_modal_data[i].frequency]]]

\* get_distance_calculator_data: [raised, data], data the rpm and the frequency
\* per modal timestamp.  .loc[frequency_data.index] raises KeyError when a
\* label of the modal index is not in the index of scada_data; the rows of
\* scada_data at other labels are not selected.
get_distance_calculator_data ==
    IF hd_modal_data = <<>>
    THEN [raised |-> "ValueError", data |-> <<>>]
    ELSE IF \E i \in DOMAIN hd_modal_data : ~has_rpm(hd_modal_data[i].timestamp)
    THEN [raised |-> "KeyError", data |-> <<>>]
    ELSE [raised |-> NoException,
          data |-> [i \in DOMAIN hd_modal_data |->
                      [timestamp |-> hd_modal_data[i].timestamp,
                       rpm |-> rpm_at(hd_modal_data[i].timestamp),
                       frequency |-> hd_modal_data[i].frequency]]]

\* distance_to_harmonic(p_harmonic): [raised, distances]
distance_to_harmonic(p_harmonic) ==
    LET data == get_distance_calculator_data
    IN  [raised |-> data.raised,
         distances |-> [i \in DOMAIN data.data |->
                          harmonic_distance(p_harmonic, data.data[i].rpm,
                                            data.data[i].frequency)]]

\* Variant: the column of an order adds the distances of the first order of the
\* list to its own.
distances_table_cumulative(orders) ==
    IF orders # <<>> /\ get_distance_calculator_data.raised # NoException
    THEN [raised |-> get_distance_calculator_data.raised,
          distances |-> [columns |-> {}, rows |-> <<>>]]
    ELSE [raised |-> NoException,
          distances |->
            [columns |-> Range(orders),
             rows |-> IF orders = <<>> THEN <<>>
                      ELSE [i \in DOMAIN hd_modal_data |->
                              [p \in Range(orders) |->
                                  IF p = orders[1]
                                  THEN distance_to_harmonic(p).distances[i]
                                  ELSE distance_to_harmonic(p).distances[i]
                                         + distance_to_harmonic(orders[1]).distances[i]]]]]

\* Variant: self.distances is not rebuilt; the new distances are added to the
\* stored ones.
distances_table_accumulating(orders) ==
    IF orders # <<>> /\ get_distance_calculator_data.raised # NoException
    THEN [raised |-> get_distance_calculator_data.raised,
          distances |-> [columns |-> {}, rows |-> <<>>]]
    ELSE [raised |-> NoException,
          distances |->
            [columns |-> Range(orders),
             rows |-> IF orders = <<>> THEN <<>>
                      ELSE [i \in DOMAIN hd_modal_data |->
                              [p \in Range(orders) |->
                                  distance_to_harmonic(p).distances[i]
                                    + (IF hd_distances # None /\ hd_distances[1].rows # <<>>
                                          /\ p \in DOMAIN hd_distances[1].rows[i]
                                       THEN hd_distances[1].rows[i][p] ELSE 0)]]]]

\* The loop of distances_data over the list orders, from an empty DataFrame:
\* one column per order, each the result of distance_to_harmonic for that order
distances_table(orders) ==
    IF orders # <<>> /\ get_distance_calculator_data.raised # NoException
    THEN [raised |-> get_distance_calculator_data.raised,
          distances |-> [columns |-> {}, rows |-> <<>>]]
    ELSE [raised |-> NoException,
          distances |->
            [columns |-> Range(orders),
             rows |-> IF orders = <<>> THEN <<>>
                      ELSE [i \in DOMAIN hd_modal_data |->
                              [p \in Range(orders) |-> distance_to_harmonic(p).distances[i]]]]]

\* The table distances_data builds: [raised, distances]; row i holds, per order
\* p, the column distance_{p}p at modal row i.  It raises in the first order's
\* distance_to_harmonic, after self.distances was reset.
distances_data == distances_table(p_orders)

\* get_plot_distance_data(frequency_range, max_damping): [raised, distances, data];
\* a row of data is the modal row, its distance columns and its rpm
\* .loc[plt_data.index] raises KeyError when a selected row has no RPM sample
get_plot_distance_data(frequency_max, max_damping_) ==
    LET d == distances_data
        joined == [i \in DOMAIN hd_modal_data |->
                     [timestamp |-> hd_modal_data[i].timestamp,
                      frequency |-> hd_modal_data[i].frequency,
                      damping |-> hd_modal_data[i].damping,
                      size |-> hd_modal_data[i].size,
                      distance |-> IF p_orders = <<>> THEN <<>> ELSE d.distances.rows[i]]]
        damped == SelectSeq(joined, LAMBDA r : r.damping < max_damping_)
        plt_data == SelectSeq(damped, LAMBDA r : r.frequency < frequency_max)
        err == IF d.raised # NoException THEN d.raised
               ELSE IF \E k \in DOMAIN plt_data : ~has_rpm(plt_data[k].timestamp)
                    THEN "KeyError" ELSE NoException
    IN  [raised |-> err,
         distances |-> d.distances,
         data |-> IF err # NoException THEN <<>>
                  ELSE [k \in DOMAIN plt_data |->
                          [timestamp |-> plt_data[k].timestamp,
                           frequency |-> plt_data[k].frequency,
                           damping |-> plt_data[k].damping,
                           size |-> plt_data[k].size,
                           distance |-> plt_data[k].distance,
                           rpm |-> rpm_at(plt_data[k].timestamp)]]]

\* min_rpm_data.filter(regex='distance').min(axis=1) < self.max_distance; the
\* minimum of no column is NaN and compares False
min_distance_below(r, max_distance_) ==
    \E p \in DOMAIN r.distance :
        /\ \A q \in DOMAIN r.distance : r.distance[p] <= r.distance[q]
        /\ r.distance[p] < max_distance_

\* Variant: the harmonic rows are kept and their frequency is blanked.
remove_harmonics_masking ==
    LET plt == get_plot_distance_data(plot_frequency_max, plot_max_damping)
    IN  [raised |-> plt.raised,
         distances |-> plt.distances,
         data |-> [i \in DOMAIN plt.data |->
                     IF plt.data[i].rpm > min_rpm
                        /\ min_distance_below(plt.data[i], hd_max_distance)
                     THEN [plt.data[i] EXCEPT !.frequency = 0]
                     ELSE plt.data[i]]]

\* Variant: a row is a harmonic only when it is close to every order.
remove_harmonics_all_orders ==
    LET plt == get_plot_distance_data(plot_frequency_max, plot_max_damping)
    IN  [raised |-> plt.raised,
         distances |-> plt.distances,
         data |-> SelectSeq(plt.data, LAMBDA r :
                     ~(/\ r.rpm > min_rpm
                       /\ DOMAIN r.distance # {}
                       /\ \A p \in DOMAIN r.distance : r.distance[p] < hd_max_distance))]

\* remove_harmonics: [raised, distances, data]
remove_harmonics ==
    LET plt == get_plot_distance_data(plot_frequency_max, plot_max_damping)
    IN  [raised |-> plt.raised,
         distances |-> plt.distances,
         data |-> SelectSeq(plt.data, LAMBDA r :
                     ~(r.rpm > min_rpm /\ min_distance_below(r, hd_max_distance)))]

\* HarmonicDetector.distances_data()
distances_data_call ==
    /\ hd_calls < MaxDetectorCalls
    /\ hd_calls' = hd_calls + 1
    /\ hd_call' = "distances_data"
    /\ hd_raised' = distances_data.raised
    /\ hd_distances' = <<distances_data.distances>>
    /\ hd_ret' = IF distances_data.raised = NoException
                 THEN <<distances_data.distances.rows>> ELSE None
    /\ UNCHANGED <<scada_data, hd_modal_data, p_orders, min_rpm, hd_max_distance>>
    /\ UNCHANGED <<trackingVars, clustererVars, restVars>>

\* HarmonicDetector.distance_to_harmonic(p_harmonic)
distance_to_harmonic_call(p_harmonic) ==
    /\ hd_calls < MaxDetectorCalls
    /\ hd_calls' = hd_calls + 1
    /\ hd_call' = "distance_to_harmonic"
    /\ hd_raised' = distance_to_harmonic(p_harmonic).raised
    /\ hd_ret' = IF distance_to_harmonic(p_harmonic).raised = NoException
                 THEN <<distance_to_harmonic(p_harmonic).distances>> ELSE None
    /\ UNCHANGED <<scada_data, hd_modal_data, p_orders, min_rpm, hd_max_distance,
                   hd_distances>>
    /\ UNCHANGED <<trackingVars, clustererVars, restVars>>

\* HarmonicDetector.remove_harmonics()
remove_harmonics_call ==
    /\ hd_calls < MaxDetectorCalls
    /\ hd_calls' = hd_calls + 1
    /\ hd_call' = "remove_harmonics"
    /\ hd_raised' = remove_harmonics.raised
    /\ hd_distances' = <<remove_harmonics.distances>>
    /\ hd_ret' = IF remove_harmonics.raised = NoException
                 THEN <<remove_harmonics.data>> ELSE None
    /\ UNCHANGED <<scada_data, hd_modal_data, p_orders, min_rpm, hd_max_distance>>
    /\ UNCHANGED <<trackingVars, clustererVars, restVars>>

\* The rows of the detector's tables are listed up to their order: in
\* non-decreasing order of (frequency, damping, rpm)
HarmonicRowRank(v) == 10000 * v[1] + 100 * v[2] + v[3]

HarmonicRowSequences ==
    {s \in SeqsUpTo(HarmonicRowValues, MaxModalRows) :
        \A i \in 1..(Len(s) - 1) : HarmonicRowRank(s[i]) <= HarmonicRowRank(s[i + 1])}

\* The index of the RPM table against the index of the modal table: the same
\* timestamps, one timestamp more, or the last modal timestamp missing
ScadaIndexes == {"same", "extra", "missing"}
ExtraRpm == [timestamp |-> MaxModalRows + 1, rpm |-> 10]

ScadaTable(s, index) ==
    LET same == [i \in DOMAIN s |-> [timestamp |-> i, rpm |-> s[i][3]]]
    IN  CASE index = "same" -> same
          [] index = "extra" -> Append(same, ExtraRpm)
          [] index = "missing" -> SubSeq(same, 1, Len(same) - 1)

\* The orders distance_to_harmonic is called with
HarmonicOrders == {1, 3}

\* The detector after construction: distances is not set (field(init=False))
HarmonicsInit ==
    /\ \E s \in HarmonicRowSequences, index \in ScadaIndexes :
        /\ index = "missing" => s # <<>>
        /\ hd_modal_data = [i \in DOMAIN s |->
                              [timestamp |-> i, frequency |-> s[i][1],
                               damping |-> s[i][2], size |-> 7]]
        /\ scada_data = ScadaTable(s, index)
    /\ p_orders \in OrderLists
    /\ min_rpm \in MinRpms
    /\ hd_max_distance \in MaxDistances
    /\ hd_distances = None
    /\ hd_call = "none"
    /\ hd_calls = 0
    /\ hd_raised = NoException
    /\ hd_ret = None
    /\ TrackingIdle
    /\ ClustererIdle
    /\ RestIdle

HarmonicsNext ==
    \/ distances_data_call
    \/ \E p_harmonic \in HarmonicOrders : distance_to_harmonic_call(p_harmonic)
    \/ remove_harmonics_call

SpecHarmonics == HarmonicsInit /\ [][HarmonicsNext]_vars

----------------------------------------------------------------------------
\* The modal row with timestamp t, the rpm recorded with modal row m, and its
\* distance to the harmonic of order p
ModalAt(t) == hd_modal_data[CHOOSE i \in DOMAIN hd_modal_data : hd_modal_data[i].timestamp = t]
RowRpm(m) == scada_data[CHOOSE i \in DOMAIN scada_data : scada_data[i].timestamp = m.timestamp].rpm
HasRowRpm(m) == \E i \in DOMAIN scada_data : scada_data[i].timestamp = m.timestamp
RowDistance(m, p) == Abs(p * RowRpm(m) - m.frequency)

HarmonicsRemoved == hd_call = "remove_harmonics" /\ hd_raised = NoException

C7_RowsAtOrBelowMinRpmKept ==
    HarmonicsRemoved =>
        \A i \in DOMAIN hd_modal_data :
            (HasRowRpm(hd_modal_data[i]) /\ RowRpm(hd_modal_data[i]) <= min_rpm) =>
                \E k \in DOMAIN hd_ret[1] : hd_ret[1][k].timestamp = hd_modal_data[i].timestamp

\* C8: remove_harmonics only removes rows: every output row has the
\* frequency, damping and size of the input modal row with the same
\* timestamp, each timestamp at most once and in input order, and the call
\* leaves the detector's modal and RPM tables unchanged.
C8_RemoveHarmonicsOnlyRemovesRows ==
    [][(hd_call' = "remove_harmonics" /\ hd_raised' = NoException) =>
          /\ hd_modal_data' = hd_modal_data
          /\ scada_data' = scada_data
          /\ \A k \in DOMAIN hd_ret'[1] :
                \E i \in DOMAIN hd_modal_data :
                    /\ hd_modal_data[i].timestamp = hd_ret'[1][k].timestamp
                    /\ hd_modal_data[i].frequency = hd_ret'[1][k].frequency
                    /\ hd_modal_data[i].damping = hd_ret'[1][k].damping
                    /\ hd_modal_data[i].size = hd_ret'[1][k].size
          /\ \A k, l \in DOMAIN hd_ret'[1] :
                k < l => hd_ret'[1][k].timestamp < hd_ret'[1][l].timestamp]_vars

\* C8 witness: remove_harmonics returned a row and removed a harmonic row.
C8_Witness ==
    /\ HarmonicsRemoved
    /\ Len(hd_ret[1]) = 1
    /\ Len(hd_modal_data) = 2
    /\ hd_ret[1][1].frequency = ModalAt(hd_ret[1][1].timestamp).frequency
    /\ \E i \in DOMAIN hd_modal_data :
          /\ HasRowRpm(hd_modal_data[i])
          /\ RowRpm(hd_modal_data[i]) > min_rpm
          /\ \E p \in Range(p_orders) : RowDistance(hd_modal_data[i], p) < hd_max_distance

\* C12: distances_data returns one column distance_{p}p per configured order
\* p with distance_{p}p[t] = |(p/60) * rpm[t] - frequency[t]| at every modal
\* timestamp t, and the column of an order is the same under every other
\* order list that holds the order (more, fewer or reordered orders).
C12_DistancesPerOrderIndependent ==
    (hd_call = "distances_data" /\ hd_raised = NoException) =>
        LET out == hd_ret[1]
        IN  /\ hd_distances[1].columns = Range(p_orders)
            /\ p_orders # <<>> => Len(out) = Len(hd_modal_data)
            /\ \A i \in DOMAIN out :
                  /\ DOMAIN out[i] = Range(p_orders)
                  /\ \A p \in Range(p_orders) :
                        out[i][p] = Abs(p * RowRpm(hd_modal_data[i]) - hd_modal_data[i].frequency)
            /\ \A orders \in OrderLists \cup {<<3, 1>>} :
                  /\ get_distance_calculator_data.raised = NoException
                        => distances_table(orders).raised = NoException
                  /\ \A p \in Range(orders) \cap Range(p_orders) : \A i \in DOMAIN out :
                        distances_table(orders).distances.rows[i][p] = out[i][p]

\* C12 witness: distances_data returned two columns for two modal rows, with
\* different distances to the two orders.
C12_Witness ==
    /\ hd_call = "distances_data"
    /\ hd_raised = NoException
    /\ p_orders = <<1, 3>>
    /\ Len(hd_ret[1]) = 2
    /\ hd_ret[1][1][1] # hd_ret[1][1][3]
    /\ hd_ret[1][2][3] > 0

\* C13: with the modal table, the RPM table and the orders unchanged, every
\* call of distances_data, direct or through remove_harmonics, leaves the
\* same stored distances table as the call before it, with exactly the
\* columns of the configured orders, and distances_data returns the same
\* table as its previous call.
C13_DistancesRebuiltEachCall ==
    [][(hd_call' \in {"distances_data", "remove_harmonics"} /\ hd_raised' = NoException) =>
          /\ hd_modal_data' = hd_modal_data /\ scada_data' = scada_data /\ p_orders' = p_orders
          /\ hd_distances' # None
          /\ hd_distances'[1].columns = Range(p_orders)
          /\ hd_distances'[1] = distances_table(p_orders).distances
          /\ (hd_calls > 0 /\ hd_call # "distance_to_harmonic" /\ hd_raised = NoException)
                => hd_distances' = hd_distances
          /\ (hd_calls > 0 /\ hd_call = "distances_data" /\ hd_call' = "distances_data")
                => hd_ret' = hd_ret]_vars

\* C13 witness: a second detector call, a direct distances_data after a first
\* call, has left a stored table with non-zero distances.
C13_Witness ==
    /\ hd_calls = 2
    /\ hd_call = "distances_data"
    /\ hd_raised = NoException
    /\ p_orders = <<1, 3>>
    /\ Len(hd_distances[1].rows) = 2
    /\ \A i \in 1..2 : \A p \in {1, 3} : hd_distances[1].rows[i][p] > 0

(***************************************************************************)
(* aggregate_time_series (scouring/scouring.py).  Time is in ticks, the      *)
(* sampling step of the input; a day is TicksPerDay ticks.  A mean is kept   *)
(* as the pair <<sum, count>> of the fraction sum / count.                   *)
(***************************************************************************)
MaxDays == 3
TicksPerDay == 10

\* freq: 'D' and '12h'
Freqs == {TicksPerDay, TicksPerDay \div 2}

\* The value of the sample at tick t is 1 + (t modulo a pattern length)
ValuePatterns == {1, 3}

\* A time series that holds, of each day, the samples of its first ticks
RECURSIVE TimeSeriesFrom(_, _, _)
TimeSeriesFrom(day, counts, pattern) ==
    IF day > MaxDays THEN <<>>
    ELSE [j \in 1..counts[day] |->
            LET t == (day - 1) * TicksPerDay + j - 1
            IN  [timestamp |-> t, value |-> 1 + (t % pattern)]]
         \o TimeSeriesFrom(day + 1, counts, pattern)

TimeSeries(counts, pattern) == TimeSeriesFrom(1, counts, pattern)

RECURSIVE SumValues(_)
SumValues(rows) == IF rows = <<>> THEN 0 ELSE Head(rows).value + SumValues(Tail(rows))

\* The rows of data that pd.Grouper(freq) and resample(freq) put in bin b
BinRows(data, freq, b) == SelectSeq(data, LAMBDA r : r.timestamp \div freq = b)

\* The bins of resample(freq): from the bin of the first sample to the bin of
\* the last one, the bins without samples included
Bins(data, freq) ==
    IF data = <<>> THEN {}
    ELSE LET of == {data[i].timestamp \div freq : i \in DOMAIN data}
         IN  {b \in 0..((MaxDays * TicksPerDay) \div freq) :
                 /\ \E c \in of : c <= b
                 /\ \E c \in of : b <= c}

\* data.groupby(pd.Grouper(freq=freq)).size().max()
full_length(data, freq) ==
    LET sizes == {Len(BinRows(data, freq, b)) : b \in Bins(data, freq)}
    IN  CHOOSE n \in sizes : \A m \in sizes : m <= n

\* The rows of resampled, in the order of their bins, that the mask keeps
resampled_loc(data, freq, kept) ==
    [k \in 1..Cardinality(kept) |->
       LET b == CHOOSE c \in kept : Cardinality({d \in kept : d <= c}) = k
       IN  [timestamp |-> b * freq,
            mean |-> <<SumValues(BinRows(data, freq, b)), Len(BinRows(data, freq, b))>>]]

\* Variant: a bin is kept only with more than 90% of full_length.
aggregate_time_series_above(data, freq) ==
    resampled_loc(data, freq,
                  {b \in Bins(data, freq) :
                      10 * Len(BinRows(data, freq, b)) > 9 * full_length(data, freq)})

\* aggregate_time_series(data, freq): mask is size >= 0.9 * full_length, which
\* on integer sizes is 10 * size >= 9 * full_length
aggregate_time_series(data, freq) ==
    resampled_loc(data, freq,
                  {b \in Bins(data, freq) :
                      10 * Len(BinRows(data, freq, b)) >= 9 * full_length(data, freq)})

\* A call of aggregate_time_series(data, freq)
aggregate_time_series_call(freq) ==
    /\ ats_freq = None
    /\ ats_freq' = <<freq>>
    /\ ats_ret' = <<aggregate_time_series(ats_data, freq)>>
    /\ UNCHANGED <<ats_data, trackingVars, clustererVars, harmonicsVars, theoreticalVars,
                   loaderVars, interleavedVars>>

AggregateInit ==
    /\ \E counts \in [1..MaxDays -> 0..TicksPerDay], pattern \in ValuePatterns :
          ats_data = TimeSeries(counts, pattern)
    /\ ats_freq = None
    /\ ats_ret = None
    /\ TrackingIdle
    /\ ClustererIdle
    /\ HarmonicsIdle
    /\ TheoreticalIdle
    /\ LoaderIdle
    /\ InterleavedIdle

AggregateNext == \E freq \in Freqs : aggregate_time_series_call(freq)

SpecAggregate == AggregateInit /\ [][AggregateNext]_vars

----------------------------------------------------------------------------
\* The samples of the input in bucket b of the last call, and the fullest
\* bucket's sample count
Buckets == 0..((MaxDays * TicksPerDay) \div ats_freq[1])
BucketSamples(b) == {i \in DOMAIN ats_data : ats_data[i].timestamp \div ats_freq[1] = b}
FullestBucket ==
    LET counts == {Cardinality(BucketSamples(b)) : b \in Buckets}
    IN  CHOOSE n \in counts : \A m \in counts : m <= n

RECURSIVE SumOver(_)
SumOver(I) ==
    IF I = {} THEN 0
    ELSE LET i == CHOOSE j \in I : TRUE IN ats_data[i].value + SumOver(I \ {i})

MaxSamples == 2

RpmValues == {0, 6, 10}

\* The column sets of the tables handed to theoretical_harmonic: with one
\* column whose name matches 'rpm', alone or next to another signal, or none
RpmColumnSets == {{"rpm"}, {"mean_rpm", "power"}, {"power"}}

IndexTypes == {"DatetimeIndex", "RangeIndex"}

HarmonicOrderLists == OrderLists \cup {<<3, 1>>, <<1, 1>>}

\* The tables handed to theoretical_harmonic: [columns, index, rows]; the row
\* at position i has index value i
RpmTables ==
    {[columns |-> cs, index |-> ix,
      rows |-> [i \in DOMAIN s |->
                  [c \in cs \cup {"timestamp"} |->
                      CASE c = "timestamp" -> i
                        [] c = "power" -> 1
                        [] OTHER -> s[i]]]] :
     cs \in RpmColumnSets, ix \in IndexTypes, s \in SeqsUpTo(RpmValues, MaxSamples)}

\* The column names that the regular expression 'rpm' matches
MatchesRpm(c) == c \in {"rpm", "mean_rpm"}

\* data.filter(regex='rpm')
filter_rpm(data) ==
    [columns |-> {c \in data.columns : MatchesRpm(c)},
     index |-> data.index,
     rows |-> [i \in DOMAIN data.rows |->
                 [c \in {k \in data.columns : MatchesRpm(k)} \cup {"timestamp"} |->
                     data.rows[i][c]]]]

\* DataFrame.empty: no column or no row
empty(df) == df.columns = {} \/ df.rows = <<>>

\* Variant: p_order / 60 is an integer division.
theoretical_harmonic_floor_division(data, p_orders_) ==
    LET rpm_data == filter_rpm(data)
        rpm_column == CHOOSE c \in rpm_data.columns : TRUE
    IN  IF empty(rpm_data)
        THEN [raised |-> "ValueError", data |-> EmptyDataFrame]
        ELSE IF rpm_data.index # "DatetimeIndex"
        THEN [raised |-> "ValueError", data |-> EmptyDataFrame]
        ELSE [raised |-> NoException,
              data |-> [columns |-> Range(p_orders_),
                        index |-> rpm_data.index,
                        rows |-> [i \in DOMAIN rpm_data.rows |->
                                    [timestamp |-> rpm_data.rows[i]["timestamp"],
                                     harmonic |-> [p \in Range(p_orders_) |->
                                         60 * ((p \div 60) * rpm_data.rows[i][rpm_column])]]]]]

\* theoretical_harmonic(data, p_orders): [raised, data]; the column
\* harmonic_{p}p of a row is harmonic[p], (p_order/60) * rpm in units of 1/60 Hz
theoretical_harmonic(data, p_orders_) ==
    LET rpm_data == filter_rpm(data)
        rpm_column == CHOOSE c \in rpm_data.columns : TRUE
    IN  IF empty(rpm_data)
        THEN [raised |-> "ValueError", data |-> EmptyDataFrame]
        ELSE IF rpm_data.index # "DatetimeIndex"
        THEN [raised |-> "ValueError", data |-> EmptyDataFrame]
        ELSE [raised |-> NoException,
              data |-> [columns |-> Range(p_orders_),
                        index |-> rpm_data.index,
                        rows |-> [i \in DOMAIN rpm_data.rows |->
                                    [timestamp |-> rpm_data.rows[i]["timestamp"],
                                     harmonic |-> [p \in Range(p_orders_) |->
                                         p * rpm_data.rows[i][rpm_column]]]]]]

\* A call of theoretical_harmonic(th_data, th_p_orders)
theoretical_harmonic_call ==
    /\ th_raised' = theoretical_harmonic(th_data, th_p_orders).raised
    /\ th_ret' = IF theoretical_harmonic(th_data, th_p_orders).raised = NoException
                 THEN <<theoretical_harmonic(th_data, th_p_orders).data>> ELSE None
    /\ UNCHANGED <<th_data, th_p_orders, trackingVars, clustererVars, harmonicsVars, loaderVars,
                   interleavedVars, aggregateVars>>

TheoreticalInit ==
    /\ th_data \in RpmTables
    /\ th_p_orders \in HarmonicOrderLists
    /\ th_raised = NoException
    /\ th_ret = None
    /\ TrackingIdle
    /\ ClustererIdle
    /\ HarmonicsIdle
    /\ LoaderIdle
    /\ InterleavedIdle
    /\ AggregateIdle

TheoreticalNext == theoretical_harmonic_call

SpecTheoretical == TheoreticalInit /\ [][TheoreticalNext]_vars

----------------------------------------------------------------------------
\* The rpm of row i of th_data: the value of its one column named after rpm
ThRpm(i) == th_data.rows[i][CHOOSE c \in th_data.columns : MatchesRpm(c)]

\* C11: for an RPM table with a time index, theoretical_harmonic returns a
\* table on the same index, in the same order, with exactly one column
\* harmonic_{p}p per order p of the list, and harmonic_{p}p[t] = (p/60) * rpm[t]
\* at every timestamp t (p * rpm[t] in units of 1/60 Hz).
C11_TheoreticalHarmonicPerOrder ==
    (/\ th_ret # None \/ th_raised # NoException
     /\ \E c \in th_data.columns : MatchesRpm(c)
     /\ th_data.rows # <<>>
     /\ th_data.index = "DatetimeIndex") =>
        /\ th_raised = NoException
        /\ th_ret # None
        /\ th_ret[1].index = th_data.index
        /\ Len(th_ret[1].rows) = Len(th_data.rows)
        /\ th_ret[1].columns = Range(th_p_orders)
        /\ \A i \in DOMAIN th_data.rows :
              /\ th_ret[1].rows[i].timestamp = th_data.rows[i]["timestamp"]
              /\ DOMAIN th_ret[1].rows[i].harmonic = Range(th_p_orders)
              /\ \A p \in Range(th_p_orders) :
                    th_ret[1].rows[i].harmonic[p] = p * ThRpm(i)

\* C11 witness: theoretical_harmonic returned the harmonics of two orders for
\* two samples of different rpm.
C11_Witness ==
    /\ th_ret # None
    /\ th_p_orders = <<1, 3>>
    /\ Len(th_data.rows) = 2
    /\ ThRpm(1) = 6
    /\ ThRpm(2) = 10
    /\ th_ret[1].rows[2].harmonic[3] = 30

(***************************************************************************)
(* load_specific_dw_model (models/mlflow_functions.py).  A string argument *)
(* is the tuple holding the sequence of its words, so that "keras" in      *)
(* model_type is membership of the word in the sequence.                   *)
(***************************************************************************)
ModelNames == {"owi_nw2_mpe", "owi_nw2_scour", "owi_bb_mpe", "owi_bb_scour"}

ModelVersions == {None, <<1>>, <<2>>}

\* None, "", and model types naming no, one or two of the known flavours
ModelTypes ==
    {None, <<<<>>>>, <<<<"keras">>>>, <<<<"sklearn">>>>, <<<<"xgboost">>>>, <<<<"pytorch">>>>,
     <<<<"tensorflow", "keras">>>>, <<<<"xgboost", "sklearn">>>>, <<<<"Keras">>>>}

\* model_type and word in model_type
NamesFlavour(model_type_, word) ==
    /\ model_type_ # None
    /\ model_type_[1] # <<>>
    /\ word \in Range(model_type_[1])

\* f"models:/{model_name}/{model_version}"
model_uri(model_name_, model_version_) ==
    <<"models:", model_name_, IF model_version_ = None THEN "None" ELSE ToString(model_version_[1])>>

\* The statements of load_specific_dw_model in order: [calls, model], the
\* load_model calls made and the model bound when the function returns
load_specific_dw_model(model_name_, model_version_, model_type_) ==
    LET uri == model_uri(model_name_, model_version_)
        keras == [loader |-> "mlflow.keras", model_uri |-> uri]
        sklearn == [loader |-> "mlflow.sklearn", model_uri |-> uri]
        pyfunc == [loader |-> "mlflow.pyfunc", model_uri |-> uri]
        after_keras ==
            IF NamesFlavour(model_type_, "keras")
            THEN [calls |-> <<keras>>, model |-> <<keras>>]
            ELSE [calls |-> <<>>, model |-> None]
        after_sklearn ==
            IF NamesFlavour(model_type_, "sklearn")
            THEN [calls |-> Append(after_keras.calls, sklearn), model |-> <<sklearn>>]
            ELSE after_keras
    IN  IF NamesFlavour(model_type_, "xgboost")
        THEN [calls |-> Append(after_sklearn.calls, sklearn), model |-> <<sklearn>>]
        ELSE [calls |-> Append(after_sklearn.calls, pyfunc), model |-> <<pyfunc>>]

\* A call of load_specific_dw_model(model_name, model_version, model_type)
load_specific_dw_model_call ==
    /\ load_model_calls' = load_specific_dw_model(model_name, model_version, model_type).calls
    /\ model' = load_specific_dw_model(model_name, model_version, model_type).model
    /\ UNCHANGED <<model_name, model_version, model_type>>
    /\ UNCHANGED <<trackingVars, clustererVars, harmonicsVars, theoreticalVars, interleavedVars,
                   aggregateVars>>

LoaderInit ==
    /\ model_name \in ModelNames
    /\ model_version \in ModelVersions
    /\ model_type \in ModelTypes
    /\ load_model_calls = <<>>
    /\ model = None
    /\ TrackingIdle
    /\ ClustererIdle
    /\ HarmonicsIdle
    /\ TheoreticalIdle
    /\ InterleavedIdle
    /\ AggregateIdle

LoaderNext == load_specific_dw_model_call

SpecLoader == LoaderInit /\ [][LoaderNext]_vars

----------------------------------------------------------------------------
\* C17: load_specific_dw_model returns the model of the loader that matches
\* model_type: of mlflow.keras when model_type names keras, of mlflow.sklearn
\* when it names sklearn or xgboost, and of mlflow.pyfunc only when
\* model_type is None or names none of the three.
C17_LoaderMatchesModelType ==
    model # None =>
        LET keras == NamesFlavour(model_type, "keras")
            sklearn == NamesFlavour(model_type, "sklearn") \/ NamesFlavour(model_type, "xgboost")
        IN  /\ (keras /\ ~sklearn) => model[1].loader = "mlflow.keras"
            /\ (sklearn /\ ~keras) => model[1].loader = "mlflow.sklearn"
            /\ model[1].loader = "mlflow.pyfunc" => (~keras /\ ~sklearn)
            /\ model[1].model_uri = model_uri(model_name, model_version)

(***************************************************************************)
(* ModeTracking                                                            *)
(***************************************************************************)
MaxRefs == 2
MaxObs == 2
MaxCalls == 2

\* A frame without a "labels" column holds this in the labels field.
NoColumn == "<no column>"

RefLabels == <<"A", "B", "C", "D">>
RefFrequencies == {10, 20}
RefMaxDistances == {2, 5, 10}
ObsFrequencies == {11, 14, 15, 21, 41}

\* Reference tables: one row per cluster, the row at position i labelled
\* RefLabels[i].
ReferenceTables ==
    {[i \in DOMAIN s |->
        [mean_frequency |-> s[i][1], labels |-> RefLabels[i], max_distance |-> s[i][2]]] :
     s \in SeqsUpTo(RefFrequencies \X RefMaxDistances, MaxRefs)}

ObservationTables ==
    {[i \in DOMAIN s |-> [frequency |-> s[i], labels |-> NoColumn]] :
     s \in SeqsUpTo(ObsFrequencies, MaxObs)}

\* The fixtures of tests/test_oma_tracking.py (1, 2, 3 Hz; 0.5, 0.3, 0.2 Hz).
TestClusteredModes ==
    <<[mean_frequency |-> 10, labels |-> "A", max_distance |-> 5],
      [mean_frequency |-> 20, labels |-> "B", max_distance |-> 3],
      [mean_frequency |-> 30, labels |-> "C", max_distance |-> 2]>>

TestOmaModes ==
    <<[frequency |-> 11, labels |-> NoColumn], [frequency |-> 21, labels |-> NoColumn],
      [frequency |-> 31, labels |-> NoColumn], [frequency |-> 41, labels |-> NoColumn]>>

\* abs(frequency - self.clustered_modes["mean_frequency"])
distances(frequency) ==
    [i \in DOMAIN clustered_modes |-> Abs(frequency - clustered_modes[i].mean_frequency)]

\* Variant: a distance equal to max_distance does not qualify.
within_max_distance_strict(frequency) ==
    {i \in DOMAIN clustered_modes :
        distances(frequency)[i] < clustered_modes[i].max_distance}

\* distances <= self.clustered_modes["max_distance"], as the set of rows where it holds
within_max_distance(frequency) ==
    {i \in DOMAIN clustered_modes :
        distances(frequency)[i] <= clustered_modes[i].max_distance}

\* Variant: of the rows holding the minimum, the last one in row order.
idxmin_last(series, idx) ==
    CHOOSE i \in idx :
        /\ \A k \in idx : series[i] <= series[k]
        /\ \A k \in idx : series[k] = series[i] => k <= i

\* Series.idxmin over the rows idx: the first row, in row order, holding the minimum
idxmin(series, idx) ==
    CHOOSE i \in idx :
        /\ \A k \in idx : series[i] <= series[k]
        /\ \A k \in idx : series[k] = series[i] => i <= k

\* Variant: the nearest cluster over the whole table is taken first and then
\* tested against its own max_distance.
closest_mode_nearest_overall(frequency) ==
    IF clustered_modes = <<>>
    THEN "undefined"
    ELSE LET j == idxmin(distances(frequency), DOMAIN clustered_modes)
         IN  IF distances(frequency)[j] <= clustered_modes[j].max_distance
             THEN clustered_modes[j].labels
             ELSE "undefined"

closest_mode(frequency) ==
    IF within_max_distance(frequency) # {}
    THEN clustered_modes[idxmin(distances(frequency), within_max_distance(frequency))].labels
    ELSE "undefined"

\* Variant: a label given to an earlier observation of the table is not given
\* again.
classify_indices_exclusive ==
    /\ calls < MaxCalls
    /\ oma_modes' =
          [i \in DOMAIN oma_modes |->
              [oma_modes[i] EXCEPT !.labels =
                  IF \E k \in 1..(i - 1) :
                        closest_mode(oma_modes[k].frequency) = closest_mode(oma_modes[i].frequency)
                  THEN "undefined"
                  ELSE closest_mode(oma_modes[i].frequency)]]
    /\ calls' = calls + 1
    /\ UNCHANGED <<clustered_modes, clustererVars, harmonicsVars, restVars>>

classify_indices ==
    /\ calls < MaxCalls
    /\ oma_modes' = [i \in DOMAIN oma_modes |->
                        [oma_modes[i] EXCEPT !.labels = closest_mode(oma_modes[i].frequency)]]
    /\ calls' = calls + 1
    /\ UNCHANGED <<clustered_modes, clustererVars, harmonicsVars, restVars>>

TrackingInit ==
    /\ \/ /\ clustered_modes \in ReferenceTables
          /\ oma_modes \in ObservationTables
       \/ /\ clustered_modes = TestClusteredModes
          /\ oma_modes = TestOmaModes
    /\ calls = 0
    /\ ClustererIdle
    /\ HarmonicsIdle
    /\ RestIdle

TrackingNext == classify_indices

SpecTracking == TrackingInit /\ [][TrackingNext]_vars

----------------------------------------------------------------------------
\* C1: after classify_indices every observation has exactly one label: the
\* label of a reference cluster of smallest distance among those whose distance
\* is <= their own max_distance (equality qualifies), and "undefined" when no
\* cluster qualifies; the test fixture is labelled A, B, C, undefined.
C1_ClassifyNearestQualifying ==
    calls > 0 =>
        /\ \A i \in DOMAIN oma_modes :
            LET f == oma_modes[i].frequency
                d(j) == Abs(f - clustered_modes[j].mean_frequency)
                Q == {j \in DOMAIN clustered_modes : d(j) <= clustered_modes[j].max_distance}
            IN  IF Q = {}
                THEN oma_modes[i].labels = "undefined"
                ELSE \E j \in Q : /\ oma_modes[i].labels = clustered_modes[j].labels
                                  /\ \A k \in Q : d(j) <= d(k)
        /\ (clustered_modes = TestClusteredModes /\ Len(oma_modes) = 4
              /\ \A i \in 1..4 : oma_modes[i].frequency = TestOmaModes[i].frequency)
           => [i \in 1..4 |-> oma_modes[i].labels] = <<"A", "B", "C", "undefined">>

\* C1 witness: a classified table in which one observation lies exactly at
\* the max_distance of the cluster it is labelled with, one observation is
\* admitted by two clusters, and one is "undefined".
C1_Witness ==
    /\ calls > 0
    /\ \E i \in DOMAIN oma_modes : \E j \in DOMAIN clustered_modes :
          /\ oma_modes[i].labels = clustered_modes[j].labels
          /\ Abs(oma_modes[i].frequency - clustered_modes[j].mean_frequency)
                = clustered_modes[j].max_distance
    /\ \E i \in DOMAIN oma_modes :
          Cardinality({j \in DOMAIN clustered_modes :
              Abs(oma_modes[i].frequency - clustered_modes[j].mean_frequency)
                <= clustered_modes[j].max_distance}) = 2
    /\ \E i \in DOMAIN oma_modes : oma_modes[i].labels = "undefined"

\* Helpers of the C2 statements: the distance of observation i to cluster j,
\* the clusters admitting i, and the clusters nearest to i over the whole table.
ObsDistance(i, j) == Abs(oma_modes[i].frequency - clustered_modes[j].mean_frequency)
Admitting(i) ==
    {j \in DOMAIN clustered_modes : ObsDistance(i, j) <= clustered_modes[j].max_distance}
NearestOverall(i) ==
    {j \in DOMAIN clustered_modes :
        \A k \in DOMAIN clustered_modes : ObsDistance(i, j) <= ObsDistance(i, k)}

\* C2 (as claimed): an observation's label is the label of its nearest
\* reference cluster over ALL clusters if that cluster admits it, and
\* "undefined" otherwise, whatever the thresholds of farther clusters are.
C2_NearestOverallOrUndefined ==
    calls > 0 =>
        \A i \in DOMAIN oma_modes :
            IF NearestOverall(i) \cap Admitting(i) # {}
            THEN \E j \in NearestOverall(i) \cap Admitting(i) :
                    oma_modes[i].labels = clustered_modes[j].labels
            ELSE oma_modes[i].labels = "undefined"

\* C2 (amended): the label is that of the nearest cluster AMONG THE CLUSTERS
\* THAT ADMIT the observation; it is "undefined" exactly when no cluster admits
\* it.  When the nearest cluster overall admits it, that is its label; when
\* it does not but a farther cluster does, the label is that of the nearest
\* admitting cluster, not "undefined".
C2_NearestAdmittingCluster ==
    calls > 0 =>
        \A i \in DOMAIN oma_modes :
            /\ (oma_modes[i].labels = "undefined") <=> (Admitting(i) = {})
            /\ NearestOverall(i) \cap Admitting(i) # {} =>
                  \E j \in NearestOverall(i) \cap Admitting(i) :
                      oma_modes[i].labels = clustered_modes[j].labels
            /\ (NearestOverall(i) \cap Admitting(i) = {} /\ Admitting(i) # {}) =>
                  \E j \in Admitting(i) \ NearestOverall(i) :
                      /\ oma_modes[i].labels = clustered_modes[j].labels
                      /\ \A k \in Admitting(i) : ObsDistance(i, j) <= ObsDistance(i, k)

\* C2 witness: a classified observation whose nearest cluster does not admit
\* it while a farther cluster does, labelled with the farther cluster.
C2_Witness ==
    /\ calls > 0
    /\ \E i \in DOMAIN oma_modes :
          /\ NearestOverall(i) # {}
          /\ NearestOverall(i) \cap Admitting(i) = {}
          /\ \E j \in Admitting(i) : oma_modes[i].labels = clustered_modes[j].labels

\* C16: a classify_indices call leaves the reference table and the
\* frequency of every observation unchanged; the label of an observation is
\* a function of its own frequency and the reference table (two observations
\* of the same frequency get the same label, whatever the rest of the table
\* and the labels written before are), and a call after the first writes the
\* labels that are already there.
C16_TrackingCarriesNoState ==
    [][calls' = calls + 1 =>
          /\ clustered_modes' = clustered_modes
          /\ DOMAIN oma_modes' = DOMAIN oma_modes
          /\ \A i \in DOMAIN oma_modes :
                /\ oma_modes'[i].frequency = oma_modes[i].frequency
                /\ oma_modes'[i].labels = closest_mode(oma_modes[i].frequency)
          /\ \A i, j \in DOMAIN oma_modes :
                oma_modes[i].frequency = oma_modes[j].frequency
                  => oma_modes'[i].labels = oma_modes'[j].labels
          /\ calls > 0 => oma_modes' = oma_modes]_vars

\* C16 witness: after a second call, two observations of the same frequency
\* carry the label of the same reference cluster.
C16_Witness ==
    /\ calls = 2
    /\ Len(oma_modes) = 2
    /\ oma_modes[1].frequency = oma_modes[2].frequency
    /\ oma_modes[1].labels = "A"
    /\ oma_modes[2].labels = "A"

----------------------------------------------------------------------------
\* The timestamps of the modal table and of the RPM table
ModalIndex == {hd_modal_data[i].timestamp : i \in DOMAIN hd_modal_data}
ScadaIndex == {scada_data[i].timestamp : i \in DOMAIN scada_data}

DistancesCalled == hd_call \in {"distance_to_harmonic", "distances_data"}

\* C21 (as stated): whenever the index of the RPM table and the index of the
\* modal table differ - a modal timestamp absent from the RPM table or an RPM
\* timestamp absent from the modal table - distance_to_harmonic and
\* distances_data fail with an error and return no distances.
C21_IndexMismatchRaises ==
    (DistancesCalled /\ ModalIndex # ScadaIndex) =>
        (hd_raised # NoException /\ hd_ret = None)

\* C21 (amended): distance_to_harmonic, and distances_data with at least one
\* order, read the RPM table at the modal timestamps only.  On a modal table
\* with rows they fail (KeyError, nothing returned) exactly when a modal
\* timestamp is absent from the RPM table; otherwise they return one distance
\* per modal row, computed from the RPM at the timestamp of the row, whether
\* or not the RPM table holds further timestamps.  On a modal table without
\* rows they fail with ValueError.  distances_data without orders reads no
\* index and returns an empty table.
C21_ModalTimestampsMustHaveRpm ==
    DistancesCalled =>
        LET reads == hd_call = "distance_to_harmonic" \/ p_orders # <<>>
            missing == ModalIndex \ ScadaIndex # {}
        IN  /\ (reads /\ hd_modal_data # <<>>) =>
                  /\ missing <=> hd_raised = "KeyError"
                  /\ ~missing <=> hd_raised = NoException
            /\ (reads /\ hd_modal_data = <<>>) => hd_raised = "ValueError"
            /\ ~reads => (hd_raised = NoException /\ hd_ret = <<<<>>>>)
            /\ hd_raised # NoException <=> hd_ret = None
            /\ (reads /\ hd_raised = NoException) =>
                  /\ Len(hd_ret[1]) = Len(hd_modal_data)
                  /\ hd_call = "distance_to_harmonic" =>
                        \E p \in HarmonicOrders : \A i \in DOMAIN hd_modal_data :
                            hd_ret[1][i] = RowDistance(hd_modal_data[i], p)
                  /\ hd_call = "distances_data" =>
                        \A p \in Range(p_orders) : \A i \in DOMAIN hd_modal_data :
                            hd_ret[1][i][p] = RowDistance(hd_modal_data[i], p)

\* C21 witness: distance_to_harmonic returned the distances of two modal rows
\* while the RPM table holds a timestamp that the modal table does not hold.
C21_Witness ==
    /\ hd_call = "distance_to_harmonic"
    /\ hd_raised = NoException
    /\ Len(hd_modal_data) = 2
    /\ ScadaIndex \ ModalIndex # {}
    /\ Len(hd_ret[1]) = 2
    /\ hd_ret[1][1] # hd_ret[1][2]

\* The clusters that admit observation i at the smallest distance among the
\* admitting ones
TiedNearest(i) ==
    {j \in Admitting(i) : \A k \in Admitting(i) : ObsDistance(i, j) <= ObsDistance(i, k)}

\* C23: when two or more reference clusters are at the same distance from an
\* observation and each is within its own max_distance, and no admitting
\* cluster is nearer, classify_indices labels the observation with the tied
\* cluster that comes first in the row order of the reference table; the
\* label is the same for every observation of that frequency and in every
\* call.
C23_TieTakesFirstReferenceRow ==
    calls > 0 =>
        \A i \in DOMAIN oma_modes :
            Cardinality(TiedNearest(i)) >= 2 =>
                /\ \E j \in TiedNearest(i) :
                      /\ \A k \in TiedNearest(i) : j <= k
                      /\ oma_modes[i].labels = clustered_modes[j].labels
                /\ \A l \in DOMAIN oma_modes :
                      oma_modes[l].frequency = oma_modes[i].frequency
                        => oma_modes[l].labels = oma_modes[i].labels

\* C23 witness: after a second call, an observation midway between two
\* clusters of different frequencies, both admitting it, carries the label of
\* the first row and not that of the second.
C23_Witness ==
    /\ calls = 2
    /\ \E i \in DOMAIN oma_modes :
          /\ TiedNearest(i) = {1, 2}
          /\ clustered_modes[1].mean_frequency # clustered_modes[2].mean_frequency
          /\ clustered_modes[1].max_distance # clustered_modes[2].max_distance
          /\ oma_modes[i].labels = clustered_modes[1].labels
          /\ oma_modes[i].labels # clustered_modes[2].labels

====
